---- MODULE Spec2Model ----
(***************************************************************************)
(* Model of StravaMarathonAgent (src/marathon_agent.py): the fitness       *)
(* analysis of a list of runs and the synthesis of a training plan.        *)
(*                                                                         *)
(* Numbers.  The program computes in binary floating point.  The model     *)
(* computes in exact integers and fractions:                               *)
(*   - a distance or mileage is held in hundredths of a mile where the     *)
(*     program holds an unrounded value and in tenths of a mile where the  *)
(*     program holds a value rounded with round(x, 1);                     *)
(*   - a pace is held in hundredths of a minute per mile;                  *)
(*   - a fraction is a pair <<n, d>> standing for n/d.                     *)
(* round(x, k) of the program rounds the binary value of x, so a value     *)
(* that is an exact decimal tie (such as 0.05 for k = 1) goes up or down   *)
(* depending on its binary representation.  The model does not follow the  *)
(* binary representation: on an exact tie both neighbours are possible     *)
(* outcomes, and an operator that rounds returns the SET of its possible   *)
(* results.  Away from a tie the outcome is unique.                        *)
(*                                                                         *)
(* State.  The agent keeps nothing between two calls (apart from the       *)
(* token, which the analysis does not read).  The variables are the frame  *)
(* of the caller: the arguments and the returned value of its latest call. *)
(***************************************************************************)
EXTENDS Integers, Naturals, Sequences, FiniteSets, TLC

VARIABLES
    op,            \* which method the caller invoked last
    runs_data,     \* argument of analyze_strava_fitness
    profile,       \* value returned by analyze_strava_fitness
    weeks,         \* arguments of generate_training_plan
    fitness_data,
    goal_time,
    plan,          \* value returned (or exception raised) by generate_training_plan
    level_args,    \* arguments of a direct call of _determine_fitness_level
    level          \* value it returned

vars == <<op, runs_data, profile, weeks, fitness_data, goal_time, plan,
          level_args, level>>

\* the value of a variable that the latest call did not set
NoValue == [unset |-> TRUE]

-----------------------------------------------------------------------------
(* Bounds of the model *)

MaxRuns == 2          \* longest list of runs given to analyze
MaxWeeks == 17        \* longest timeline given to generate
MaxGoalLen == 5       \* longest goal-time string, in characters

-----------------------------------------------------------------------------
(* Arithmetic helpers *)

Min(a, b) == IF a <= b THEN a ELSE b
Max(a, b) == IF a >= b THEN a ELSE b

RECURSIVE SumSeq(_)
SumSeq(s) == IF s = <<>> THEN 0 ELSE Head(s) + SumSeq(Tail(s))

RECURSIVE MaxSeq(_)
MaxSeq(s) == IF Len(s) = 1 THEN s[1] ELSE Max(s[1], MaxSeq(Tail(s)))

\* comparisons of a fraction q = <<n, d>> (d > 0) with the fraction a/b (b > 0)
FracLe(q, a, b) == q[1] * b <= a * q[2]
FracLt(q, a, b) == q[1] * b < a * q[2]
FracGe(q, a, b) == q[1] * b >= a * q[2]
FracGt(q, a, b) == q[1] * b > a * q[2]

\* round(): the possible results of rounding n/d (n >= 0, d > 0) to an integer
\* number of units; both neighbours on an exact tie
RoundSet(n, d) ==
    LET q == n \div d
        r == n % d
    IN  IF 2 * r < d THEN {q}
        ELSE IF 2 * r > d THEN {q + 1}
        ELSE {q, q + 1}

-----------------------------------------------------------------------------
(* Dates: a date string 'YYYY-MM-DD' is the triple <<year, month, day>> *)

IsLeap(y) == (y % 4 = 0) /\ ((y % 100 # 0) \/ (y % 400 = 0))

DaysBeforeMonth(y, m) ==
    LET cum == <<0, 31, 59, 90, 120, 151, 181, 212, 243, 273, 304, 334>>
    IN  cum[m] + (IF m > 2 /\ IsLeap(y) THEN 1 ELSE 0)

\* datetime.strptime(date, '%Y-%m-%d') as a day number (date.toordinal)
ToOrdinal(date) ==
    LET y == date[1]
        p == y - 1
    IN  365 * p + (p \div 4) - (p \div 100) + (p \div 400)
        + DaysBeforeMonth(y, date[2]) + date[3]

\* run['date'][:7], the year-month bucket
YearMonth(date) == <<date[1], date[2]>>

\* list.sort() of the day numbers, ascending
RECURSIVE Insert(_, _)
Insert(x, s) ==
    IF s = <<>> THEN <<x>>
    ELSE IF x <= Head(s) THEN <<x>> \o s
    ELSE <<Head(s)>> \o Insert(x, Tail(s))

RECURSIVE SortDates(_)
SortDates(s) == IF s = <<>> THEN <<>> ELSE Insert(Head(s), SortDates(Tail(s)))

\* the day gaps between consecutive entries of the list, in its order
Gaps(run_dates) == [i \in 1..(Len(run_dates) - 1) |-> run_dates[i + 1] - run_dates[i]]

\* the parsed dates without run_dates.sort()
RunDatesBug(runs) == [i \in 1..Len(runs) |-> ToOrdinal(runs[i].date)]

\* run_dates of analyze_strava_fitness: the parsed dates, sorted
RunDates(runs) == SortDates([i \in 1..Len(runs) |-> ToOrdinal(runs[i].date)])

\* avg_gap: the mean of the gaps of the sorted dates, 0 without a gap
AvgGap(runs) ==
    LET gaps == Gaps(RunDates(runs))
    IN  IF Len(gaps) > 0 THEN <<SumSeq(gaps), Len(gaps)>> ELSE <<0, 1>>

-----------------------------------------------------------------------------
(* Helpers of the analysis *)

CalculateConsistencyScore(avg_gap_days) ==
    IF FracLe(avg_gap_days, 3, 2) THEN "Excellent (Daily runner)"
    ELSE IF FracLe(avg_gap_days, 5, 2) THEN "Very Good (5-6 runs/week)"
    ELSE IF FracLe(avg_gap_days, 7, 2) THEN "Good (4-5 runs/week)"
    ELSE IF FracLe(avg_gap_days, 5, 1) THEN "Fair (3-4 runs/week)"
    ELSE "Needs Improvement (Inconsistent)"

\* weekly_mileage and longest_run in miles, avg_gap in days, all fractions
GenerateRecommendations(weekly_mileage, longest_run, avg_gap) ==
    (IF FracLt(weekly_mileage, 20, 1)
        THEN <<"Focus on building base mileage gradually (10% rule)">> ELSE <<>>)
    \o (IF FracLt(longest_run, 10, 1)
        THEN <<"Gradually increase long run distance">> ELSE <<>>)
    \o (IF FracGt(avg_gap, 3, 1)
        THEN <<"Improve consistency - aim for at least 4 runs per week">> ELSE <<>>)
    \o (IF FracGt(weekly_mileage, 50, 1) /\ FracLt(longest_run, 16, 1)
        THEN <<"Add more long runs to match your weekly volume">> ELSE <<>>)

\* the pace step demoting a slow runner to the lowest tier
PaceAdjustBug(base_level, avg_pace) ==
    IF FracLt(avg_pace, 7, 1)
    THEN (IF base_level \in {"Beginner", "Beginner+"} THEN "Intermediate" ELSE base_level)
    ELSE IF FracGt(avg_pace, 10, 1)
    THEN (IF base_level \in {"Advanced", "Intermediate+"} THEN "Beginner" ELSE base_level)
    ELSE base_level

\* the pace step of _determine_fitness_level
PaceAdjust(base_level, avg_pace) ==
    IF FracLt(avg_pace, 7, 1)
    THEN (IF base_level \in {"Beginner", "Beginner+"} THEN "Intermediate" ELSE base_level)
    ELSE IF FracGt(avg_pace, 10, 1)
    THEN (IF base_level \in {"Advanced", "Intermediate+"} THEN "Intermediate" ELSE base_level)
    ELSE base_level

\* weekly_mileage and longest_run in miles, avg_pace in minutes per mile, fractions
DetermineFitnessLevel(weekly_mileage, longest_run, avg_pace) ==
    LET base_level ==
            IF FracGe(weekly_mileage, 50, 1) /\ FracGe(longest_run, 20, 1) THEN "Advanced"
            ELSE IF FracGe(weekly_mileage, 35, 1) /\ FracGe(longest_run, 16, 1) THEN "Intermediate+"
            ELSE IF FracGe(weekly_mileage, 25, 1) /\ FracGe(longest_run, 12, 1) THEN "Intermediate"
            ELSE IF FracGe(weekly_mileage, 15, 1) /\ FracGe(longest_run, 8, 1) THEN "Beginner+"
            ELSE "Beginner"
    IN  PaceAdjust(base_level, avg_pace)

-----------------------------------------------------------------------------
(* analyze_strava_fitness *)

\* the first run of maximal distance, max(runs_data, key=distance)
RECURSIVE LongestRun(_)
LongestRun(runs) ==
    IF Len(runs) = 1 THEN runs[1]
    ELSE LET rest == LongestRun(Tail(runs))
         IN  IF rest.distance > runs[1].distance THEN rest ELSE runs[1]

\* weeks_of_data: the number of distinct year-month buckets
WeeksOfData(runs) == Cardinality({YearMonth(runs[i].date) : i \in 1..Len(runs)})

\* total_distance in hundredths of a mile
TotalDistance(runs) == SumSeq([i \in 1..Len(runs) |-> runs[i].distance])

\* total_distance multiplied by the number of buckets instead of divided
WeeklyMileageBug(runs) == <<TotalDistance(runs) * Max(WeeksOfData(runs), 1), 100>>

\* weekly_mileage in miles, as a fraction
WeeklyMileage(runs) == <<TotalDistance(runs), 100 * Max(WeeksOfData(runs), 1)>>

\* avg_pace in minutes per mile, as a fraction
AvgPace(runs) == <<SumSeq([i \in 1..Len(runs) |-> runs[i].pace_per_mile]), 100 * Len(runs)>>

\* The set of values analyze_strava_fitness can return for runs_data (one value
\* unless a rounded field sits on a tie).  total_distance and weekly_mileage
\* are in tenths of a mile, average_pace in hundredths of a minute per mile.
\* The fields recent_pace_trend, workout_distribution and average_heartrate
\* are left out: no other field and no step of the plan reads them.
AnalyzeStravaFitness(runs) ==
    IF runs = <<>>
    THEN {[error |-> "No valid running data available"]}
    ELSE LET weekly_mileage == WeeklyMileage(runs)
             longest_run == LongestRun(runs)
             avg_pace == AvgPace(runs)
             run_dates == RunDates(runs)
             avg_gap == AvgGap(runs)
             longest_miles == <<longest_run.distance, 100>>
             totals == RoundSet(TotalDistance(runs), 10)
             Profile(td, wm, ap) ==
                [data_period_days |-> run_dates[Len(run_dates)] - run_dates[1],
                 total_runs |-> Len(runs),
                 total_distance |-> td,
                 weekly_mileage |-> wm,
                 average_pace |-> ap,
                 longest_run |-> [distance |-> longest_run.distance,
                                  pace |-> longest_run.pace_per_mile,
                                  date |-> longest_run.date],
                 fitness_level |-> DetermineFitnessLevel(weekly_mileage, longest_miles, avg_pace),
                 consistency_score |-> CalculateConsistencyScore(avg_gap),
                 training_recommendations |->
                     GenerateRecommendations(weekly_mileage, longest_miles, avg_gap)]
             \* round(weekly_mileage, 1); weekly_mileage is total_distance itself
             \* when it was divided by 1, and then both round alike
             Weekly(td) == IF weekly_mileage[2] = 100 /\ weekly_mileage[1] = TotalDistance(runs)
                           THEN {td}
                           ELSE RoundSet(10 * weekly_mileage[1], weekly_mileage[2])
         IN  UNION { { Profile(td, wm, ap) :
                         wm \in Weekly(td),
                         ap \in RoundSet(100 * avg_pace[1], avg_pace[2]) } :
                     td \in totals }

-----------------------------------------------------------------------------
(* Helpers of generate_training_plan *)

\* dict.get(key, default)
Get(d, key, default) == IF key \in DOMAIN d THEN d[key] ELSE default

\* all the lists that take their k-th element from the k-th set of ss
RECURSIVE AllChoices(_)
AllChoices(ss) ==
    IF ss = <<>> THEN {<<>>}
    ELSE {<<x>> \o t : x \in Head(ss), t \in AllChoices(Tail(ss))}

\* the lookup with the 4-week entry as the default
PeakMultiplierBug(w) ==
    IF w = 16 THEN 18
    ELSE IF w = 12 THEN 16
    ELSE IF w = 8 THEN 14
    ELSE 12

\* peak_multipliers.get(weeks, 1.5), in tenths
PeakMultiplier(w) ==
    IF w = 16 THEN 18
    ELSE IF w = 12 THEN 16
    ELSE IF w = 8 THEN 14
    ELSE IF w = 4 THEN 12
    ELSE 15

\* max_safe_mileage in hundredths of a mile; weekly_mileage in tenths
MaxSafeMileage(w, weekly_mileage, fitness_level) ==
    LET capped == Min(weekly_mileage * PeakMultiplier(w), 7000)
    IN  IF fitness_level = "Beginner" THEN Min(capped, 4000)
        ELSE IF fitness_level = "Beginner+" THEN Min(capped, 5000)
        ELSE capped

Phase(name, wk, focus, range) ==
    [phase |-> name, weeks |-> wk, focus |-> focus, mileage_range |-> range]

\* The possible phase lists.  base in tenths, peak in hundredths of a mile.  A
\* mileage_range label "a-b" is the list <<a, b>> of whole miles, "a" is <<a>>;
\* f"{x:.0f}" rounds x to a whole number.
CreateTrainingPhases(w, base, peak) ==
    IF w = 16 THEN
        { << Phase("Base Building", "1-6", "Aerobic development", <<b, b13>>),
             Phase("Build Up", "7-12", "Speed & strength", <<b13, pk>>),
             Phase("Peak", "13-14", "Race pace practice", <<pk>>),
             Phase("Taper", "15-16", "Recovery & race prep", <<b06, b08>>) >> :
          b \in RoundSet(base, 10), b13 \in RoundSet(13 * base, 100),
          pk \in RoundSet(peak, 100), b06 \in RoundSet(6 * base, 100),
          b08 \in RoundSet(8 * base, 100) }
    ELSE IF w = 12 THEN
        { << Phase("Base Building", "1-4", "Aerobic development", <<b, b12>>),
             Phase("Build Up", "5-9", "Speed & strength", <<b12, pk>>),
             Phase("Peak", "10", "Race pace practice", <<pk>>),
             Phase("Taper", "11-12", "Recovery & race prep", <<b07, b08>>) >> :
          b \in RoundSet(base, 10), b12 \in RoundSet(12 * base, 100),
          pk \in RoundSet(peak, 100), b07 \in RoundSet(7 * base, 100),
          b08 \in RoundSet(8 * base, 100) }
    ELSE IF w = 8 THEN
        { << Phase("Build Up", "1-5", "Maintain & improve", <<b, pk>>),
             Phase("Peak", "6", "Race pace practice", <<pk>>),
             Phase("Taper", "7-8", "Recovery & race prep", <<b08>>) >> :
          b \in RoundSet(base, 10), pk \in RoundSet(peak, 100),
          b08 \in RoundSet(8 * base, 100) }
    ELSE
        { << Phase("Maintain", "1-2", "Maintain fitness", <<b>>),
             Phase("Taper", "3-4", "Recovery & race prep", <<b07>>) >> :
          b \in RoundSet(base, 10), b07 \in RoundSet(7 * base, 100) }

Structures ==
    [Beginner |->
        [runs_per_week |-> 4,
         structure |-> <<"Easy Run", "Rest", "Easy Run", "Rest", "Tempo/Speed", "Rest", "Long Run">>],
     BeginnerPlus |->
        [runs_per_week |-> 5,
         structure |-> <<"Easy Run", "Tempo/Speed", "Easy Run", "Rest", "Easy Run", "Rest", "Long Run">>],
     Intermediate |->
        [runs_per_week |-> 5,
         structure |-> <<"Easy Run", "Speed Work", "Easy Run", "Tempo Run", "Easy Run", "Rest", "Long Run">>],
     IntermediatePlus |->
        [runs_per_week |-> 6,
         structure |-> <<"Easy Run", "Speed Work", "Easy Run", "Tempo Run", "Easy Run", "Recovery Run", "Long Run">>],
     Advanced |->
        [runs_per_week |-> 6,
         structure |-> <<"Easy Run", "Speed Work", "Easy Run", "Tempo Run", "Easy Run", "Recovery Run", "Long Run">>]]

\* structures.get(fitness_level, structures['Beginner'])
CreateWeeklyStructure(fitness_level) ==
    IF fitness_level = "Beginner" THEN Structures.Beginner
    ELSE IF fitness_level = "Beginner+" THEN Structures.BeginnerPlus
    ELSE IF fitness_level = "Intermediate" THEN Structures.Intermediate
    ELSE IF fitness_level = "Intermediate+" THEN Structures.IntermediatePlus
    ELSE IF fitness_level = "Advanced" THEN Structures.Advanced
    ELSE Structures.Beginner

\* the loop of the long build: entry i (from 0) of n, current in hundredths
RECURSIVE LongBuild(_, _, _)
LongBuild(i, n, current) ==
    IF i >= n THEN <<>>
    ELSE LET next == IF i % 2 = 0 /\ current < 2000 THEN current + 200 ELSE current
         IN  <<Min(next, 2200)>> \o LongBuild(i + 1, n, next)

\* long_runs, in hundredths of a mile
LongRuns(w, current_longest) ==
    LET start_long == Max(current_longest, 800)
    IN  IF w >= 12
        THEN LongBuild(0, w - 4, start_long) \o <<1800, 1200, 800, 600>>
        ELSE LET n == Min(w - 2, 6)
                 steps == IF n <= 0 THEN 0 ELSE (n + 1) \div 2
             IN  [j \in 1..steps |-> start_long + 100 * (2 * (j - 1))] \o <<1200, 800>>

\* long_runs[:weeks]
Truncate(s, n) == SubSeq(s, 1, Min(n, Len(s)))

SpeedWorkouts(fitness_level) ==
    IF fitness_level \in {"Beginner"}
    THEN <<"4x400m @ 5K pace", "3x800m @ 5K pace", "6x400m @ 5K pace", "4x800m @ 5K pace">>
    ELSE IF fitness_level \in {"Beginner+", "Intermediate"}
    THEN <<"4x800m @ 5K pace", "6x800m @ 5K pace", "3x1600m @ 10K pace",
           "5x1000m @ 5K pace", "8x400m @ Mile pace">>
    ELSE <<"6x800m @ 5K pace", "4x1200m @ 5K pace", "3x1600m @ 10K pace",
           "8x400m @ Mile pace", "5x1000m @ 5K pace", "2x3200m @ 10K pace">>

\* key_workouts as a record of its two entries (the notes are left out)
GenerateKeyWorkouts(w, fitness_level, current_longest) ==
    [long_runs |-> [type |-> "Long Runs",
                    progression |-> Truncate(LongRuns(w, current_longest), w)],
     speed_work |-> [type |-> "Speed Work", examples |-> SpeedWorkouts(fitness_level)]]

-----------------------------------------------------------------------------
(* Goal time: a string is the list of its characters; None is NoGoal *)

NoGoal == [none |-> TRUE]
GoalText(text) == [text |-> text]

Digits == {"0", "1", "2", "3", "4", "5", "6", "7", "8", "9"}

DigitValue(c) ==
    CASE c = "0" -> 0 [] c = "1" -> 1 [] c = "2" -> 2 [] c = "3" -> 3 [] c = "4" -> 4
      [] c = "5" -> 5 [] c = "6" -> 6 [] c = "7" -> 7 [] c = "8" -> 8 [] c = "9" -> 9

\* str.split(':'): the fields between the colons, at least one
RECURSIVE Split(_)
Split(text) ==
    IF text = <<>> THEN << <<>> >>
    ELSE LET rest == Split(Tail(text))
         IN  IF Head(text) = ":" THEN << <<>> >> \o rest
             ELSE << <<Head(text)>> \o Head(rest) >> \o Tail(rest)

\* float(field) succeeds on a non-empty run of digits (the only numbers the
\* alphabet of the model can spell) and raises ValueError otherwise
IsNumber(field) == field # <<>> /\ \A i \in 1..Len(field) : field[i] \in Digits

RECURSIVE FloatValue(_)
FloatValue(field) ==
    IF field = <<>> THEN 0
    ELSE 10 * FloatValue(SubSeq(field, 1, Len(field) - 1)) + DigitValue(field[Len(field)])

\* the exception that line 368 raises on time_parts, "" when it raises none;
\* the operands are evaluated left to right
ParseError(time_parts) ==
    IF ~IsNumber(time_parts[1]) THEN "ValueError"
    ELSE IF Len(time_parts) < 2 THEN "IndexError"
    ELSE IF ~IsNumber(time_parts[2]) THEN "ValueError"
    ELSE IF Len(time_parts) < 3 THEN "IndexError"
    ELSE IF ~IsNumber(time_parts[3]) THEN "ValueError"
    ELSE ""

\* goal_pace in minutes per mile, a fraction: goal_hours * 60 / 26.2 with
\* goal_hours = h + m/60 + s/3600
GoalPaceOf(time_parts) ==
    << 3600 * FloatValue(time_parts[1]) + 60 * FloatValue(time_parts[2])
         + FloatValue(time_parts[3]), 1572 >>

\* an empty string is falsy, like None
IsTruthy(goal) == "text" \in DOMAIN goal /\ goal.text # <<>>

\* The possible pace tables, or the exception raised; paces in hundredths of a
\* minute per mile.
CalculatePaceTargets(fd, goal) ==
    LET current_pace == Get(fd, "average_pace", 900)
        time_parts == Split(goal.text)
        goal_pace == IF IsTruthy(goal) THEN GoalPaceOf(time_parts)
                     ELSE <<95 * current_pace, 10000>>
    IN  IF IsTruthy(goal) /\ ParseError(time_parts) # ""
        THEN {[raised |-> ParseError(time_parts)]}
        ELSE { [current_average_pace |-> current_pace,
                goal_marathon_pace |-> gp,
                easy_pace |-> ep,
                tempo_pace |-> tp,
                interval_pace |-> ip,
                long_run_pace |-> lp] :
               gp \in RoundSet(100 * goal_pace[1], goal_pace[2]),
               ep \in RoundSet(115 * goal_pace[1], goal_pace[2]),
               tp \in RoundSet(92 * goal_pace[1], goal_pace[2]),
               ip \in RoundSet(85 * goal_pace[1], goal_pace[2]),
               lp \in RoundSet(110 * goal_pace[1], goal_pace[2]) }

-----------------------------------------------------------------------------
(* The weekly schedule *)

GetWeekFocus(week_num, total_weeks) ==
    IF total_weeks >= 12
    THEN IF week_num <= 6 THEN "Base building"
         ELSE IF week_num <= total_weeks - 4 THEN "Speed & strength"
         ELSE IF week_num <= total_weeks - 2 THEN "Race pace"
         ELSE "Taper & recovery"
    ELSE IF week_num <= total_weeks - 2 THEN "Maintain fitness"
         ELSE "Taper & recovery"

\* _get_key_workout with the taper test widened by one week
GetKeyWorkoutBug(week_num, total_weeks, fitness_level) ==
    IF week_num >= total_weeks - 2 THEN "Easy pace runs only"
    ELSE LET workout_cycle == (week_num - 1) % 3
             workouts == IF fitness_level \in {"Beginner"}
                         THEN <<"Tempo run", "Fartlek", "Hill repeats">>
                         ELSE <<"Interval training", "Tempo run", "Long run with pickups">>
         IN  workouts[workout_cycle + 1]

GetKeyWorkout(week_num, total_weeks, fitness_level) ==
    IF week_num > total_weeks - 2 THEN "Easy pace runs only"
    ELSE LET workout_cycle == (week_num - 1) % 3
             workouts == IF fitness_level \in {"Beginner"}
                         THEN <<"Tempo run", "Fartlek", "Hill repeats">>
                         ELSE <<"Interval training", "Tempo run", "Long run with pickups">>
         IN  workouts[workout_cycle + 1]

\* entry `week` (from 0) of the build-up, before rounding, as a fraction of
\* tenths of a mile: base_mileage + increment * week with
\* increment = (peak_mileage - base_mileage) / build_weeks
BuildMiles(week, build_weeks, base_mileage, peak_mileage) ==
    << 10 * base_mileage * build_weeks + (peak_mileage - 10 * base_mileage) * week,
       10 * build_weeks >>

\* the taper of a long timeline: the possible values of its four entries
LongTaperBug(peak_mileage) ==
    << RoundSet(18 * peak_mileage, 100), RoundSet(6 * peak_mileage, 100),
       RoundSet(4 * peak_mileage, 100), RoundSet(3 * peak_mileage, 100) >>

LongTaper(peak_mileage) ==
    << RoundSet(8 * peak_mileage, 100), RoundSet(6 * peak_mileage, 100),
       RoundSet(4 * peak_mileage, 100), RoundSet(3 * peak_mileage, 100) >>

\* the taper of a short timeline: the possible values of its two entries
ShortTaper(base_mileage) ==
    << RoundSet(7 * base_mileage, 10), RoundSet(5 * base_mileage, 10) >>

\* The possible lists mileage_progression, in tenths of a mile; base_mileage in
\* tenths, peak_mileage in hundredths.
MileageProgression(w, base_mileage, peak_mileage) ==
    IF w >= 12
    THEN LET build_weeks == w - 4
             Entry(week) == BuildMiles(week, build_weeks, base_mileage, peak_mileage)
         IN  AllChoices([k \in 1..build_weeks |-> RoundSet(Entry(k - 1)[1], Entry(k - 1)[2])]
                        \o LongTaper(peak_mileage))
    ELSE AllChoices([k \in 1..(w - 2) |-> {base_mileage}] \o ShortTaper(base_mileage))

\* the entry appended for week_num
WeekEntry(week_num, w, mileage_progression, base_mileage, fitness_level) ==
    [week |-> week_num,
     total_miles |-> IF week_num <= Len(mileage_progression)
                     THEN mileage_progression[week_num] ELSE base_mileage,
     focus |-> GetWeekFocus(week_num, w),
     key_workout |-> GetKeyWorkout(week_num, w, fitness_level)]

\* the loop with range(1, weeks) in place of range(1, weeks + 1)
WeeklyDetailsBug(w, mileage_progression, base_mileage, fitness_level) ==
    [week_num \in 1..(w - 1) |->
        WeekEntry(week_num, w, mileage_progression, base_mileage, fitness_level)]

\* the loop over week_num of _generate_weekly_schedule
WeeklyDetails(w, mileage_progression, base_mileage, fitness_level) ==
    [week_num \in 1..w |->
        WeekEntry(week_num, w, mileage_progression, base_mileage, fitness_level)]

\* the possible schedules
GenerateWeeklySchedule(w, base_mileage, peak_mileage, fitness_level) ==
    { WeeklyDetails(w, mp, base_mileage, fitness_level) :
        mp \in MileageProgression(w, base_mileage, peak_mileage) }

-----------------------------------------------------------------------------
(* generate_training_plan *)

FitnessLevels == {"Beginner", "Beginner+", "Intermediate", "Intermediate+", "Advanced"}

\* The possible results: the plans, or the exception that leaves the method.
\* current_weekly_mileage and peak_weekly_mileage are in tenths of a mile.
GenerateTrainingPlan(w, fd, goal) ==
    LET weekly_mileage == Get(fd, "weekly_mileage", 200)
        fitness_level == Get(fd, "fitness_level", "Beginner")
        longest_run == Get(Get(fd, "longest_run", <<>>), "distance", 800)
        max_safe_mileage == MaxSafeMileage(w, weekly_mileage, fitness_level)
        targets == CalculatePaceTargets(fd, goal)
    IN  IF \E t \in targets : "raised" \in DOMAIN t
        THEN targets
        ELSE { [timeline_weeks |-> w,
                fitness_level |-> fitness_level,
                current_weekly_mileage |-> weekly_mileage,
                peak_weekly_mileage |-> pk,
                goal_marathon_time |-> goal,
                training_phases |-> ph,
                weekly_structure |-> CreateWeeklyStructure(fitness_level),
                key_workouts |-> GenerateKeyWorkouts(w, fitness_level, longest_run),
                pace_targets |-> pt,
                weekly_schedule |-> ws] :
               pk \in RoundSet(max_safe_mileage, 10),
               ph \in CreateTrainingPhases(w, weekly_mileage, max_safe_mileage),
               pt \in targets,
               ws \in GenerateWeeklySchedule(w, weekly_mileage, max_safe_mileage,
                                             fitness_level) }

-----------------------------------------------------------------------------
(* The inputs of the model *)

Dates == {<<2024, 1, 1>>, <<2024, 1, 8>>, <<2024, 2, 1>>, <<2024, 3, 1>>}
Distances == {4, 600, 2000}        \* hundredths of a mile, all positive
Paces == {640, 1080}               \* hundredths of a minute per mile

Runs == [date : Dates, distance : Distances, pace_per_mile : Paces]

RunLists == UNION {[1..n -> Runs] : n \in 0..MaxRuns}

Weeks == 1..MaxWeeks

\* the timelines tried on an analysed profile: the four of the multiplier
\* table and one outside it
ProfileWeeks == {4, 8, 12, 16, MaxWeeks}

\* weekly mileages in tenths of a mile
Mileages == (0..12) \cup {200, 350, 620, 800}

\* a level outside the five tiers included
LevelNames == FitnessLevels \cup {"Elite"}

\* dicts a caller builds by hand, like sample_data of the example (line 464)
HandMadeDicts ==
    {[weekly_mileage |-> m, fitness_level |-> l, longest_run |-> [distance |-> d]] :
        m \in Mileages, l \in LevelNames, d \in {1400, 2100}}
    \cup {[weekly_mileage |-> m, fitness_level |-> l] : m \in {350}, l \in LevelNames}

GoalAlphabet == {"3", ":", "a"}

GoalTexts == UNION {[1..n -> GoalAlphabet] : n \in 0..MaxGoalLen}

SampleData == [weekly_mileage |-> 350, fitness_level |-> "Intermediate",
               longest_run |-> [distance |-> 1400]]

\* the calls of generate_training_plan by hand-made dicts: every timeline and
\* dict without a goal, and every goal text on a few of them
HandMadeCalls ==
    {<<w, fd, NoGoal>> : w \in Weeks, fd \in HandMadeDicts}
    \cup {<<w, fd, GoalText(t)>> : w \in {4, 10}, fd \in {SampleData, <<>>}, t \in GoalTexts}

\* the arguments of a direct call of _determine_fitness_level, around the
\* thresholds of the tiers
LevelArgs ==
    [weekly_mileage : {<<n, 10>> : n \in {149, 150, 249, 250, 349, 350, 499, 500}},
     longest_run : {<<n, 100>> : n \in {799, 800, 1199, 1200, 1599, 1600, 1999, 2000}},
     avg_pace : {<<n, 100>> : n \in {699, 700, 1000, 1001}}]

-----------------------------------------------------------------------------
(* The calls.  A caller starts with one call: it analyses a list of runs and
   may hand the result to generate, or it generates a plan from a dict made
   by hand, or it classifies one triple after another. *)

Init ==
    /\ op = "none"
    /\ runs_data = <<>>
    /\ profile = NoValue
    /\ weeks = 0
    /\ fitness_data = NoValue
    /\ goal_time = NoGoal
    /\ plan = NoValue
    /\ level_args = NoValue
    /\ level = ""

\* profile = analyze_strava_fitness(runs)
Analyze ==
    /\ op = "none"
    /\ \E runs \in RunLists :
           /\ op' = "analyze"
           /\ runs_data' = runs
           /\ profile' \in AnalyzeStravaFitness(runs)
           /\ weeks' = 0
           /\ fitness_data' = NoValue
           /\ goal_time' = NoGoal
           /\ plan' = NoValue
           /\ level_args' = NoValue
           /\ level' = ""

GenerateCall(w, fd, goal) ==
    /\ op' = "generate"
    /\ weeks' = w
    /\ fitness_data' = fd
    /\ goal_time' = goal
    /\ plan' \in GenerateTrainingPlan(w, fd, goal)
    /\ runs_data' = <<>>
    /\ profile' = NoValue
    /\ level_args' = NoValue
    /\ level' = ""

\* plan = generate_training_plan(w, profile): the value analyze returned,
\* whatever it is, goes into generate
GenerateFromProfile ==
    /\ op = "analyze"
    /\ \E w \in ProfileWeeks : GenerateCall(w, profile, NoGoal)

\* plan = generate_training_plan(w, fd, goal) on a hand-made dict
GenerateFromDict ==
    /\ op = "none"
    /\ \E call \in HandMadeCalls : GenerateCall(call[1], call[2], call[3])

\* level = _determine_fitness_level(weekly_mileage, longest_run, avg_pace)
Classify ==
    /\ op \in {"none", "classify"}
    /\ \E args \in LevelArgs :
           /\ op' = "classify"
           /\ level_args' = args
           /\ level' = DetermineFitnessLevel(args.weekly_mileage, args.longest_run,
                                              args.avg_pace)
           /\ runs_data' = <<>>
           /\ profile' = NoValue
           /\ weeks' = 0
           /\ fitness_data' = NoValue
           /\ goal_time' = NoGoal
           /\ plan' = NoValue

Next ==
    \/ GenerateFromDict
    \/ Analyze
    \/ GenerateFromProfile
    \/ Classify

Spec == Init /\ [][Next]_vars

-----------------------------------------------------------------------------
(* Vocabulary of the properties *)

\* generate returned a plan (it raised nothing)
Planned == op = "generate" /\ "weekly_schedule" \in DOMAIN plan

\* generate was left by an exception
Raised == op = "generate" /\ "raised" \in DOMAIN plan

\* the number of taper weeks of a timeline
TaperWeeks(w) == IF w >= 12 THEN 4 ELSE 2

\* the positions of the taper entries in a schedule of w entries
TaperEntries(w) == {k \in 1..w : k > w - TaperWeeks(w)}

\* the largest total_miles of a schedule
PeakWeekMiles(schedule) == MaxSeq([k \in 1..Len(schedule) |-> schedule[k].total_miles])

-----------------------------------------------------------------------------
(* C1: for every positive weeks, every fitness level and every mileage, the
   weekly_schedule of a returned plan has exactly `weeks` entries and its
   k-th entry carries week number k. *)
C1_ScheduleLength ==
    Planned =>
        /\ Len(plan.weekly_schedule) = weeks
        /\ \A k \in 1..weeks : plan.weekly_schedule[k].week = k

\* a plan for a timeline outside {4, 8, 12, 16}, shorter than the taper
C1_Witness ==
    /\ Planned
    /\ weeks = 1
    /\ Len(plan.weekly_schedule) = 1

-----------------------------------------------------------------------------
(* C2 as stated: in every schedule each taper week (the last 2 entries when
   weeks < 12, the last 4 when weeks >= 12) has total_miles strictly lower
   than the largest total_miles of the schedule, for every positive weeks
   and every weekly mileage. *)
C2_TaperBelowPeakWeek_Original ==
    Planned =>
        \A k \in TaperEntries(weeks) :
            plan.weekly_schedule[k].total_miles < PeakWeekMiles(plan.weekly_schedule)

(* C2 amended: when weeks >= 3 and the current weekly mileage is at least
   0.4 miles, each taper week has total_miles strictly lower than the
   largest total_miles of the schedule. *)
C2_TaperBelowPeakWeek ==
    (Planned /\ weeks >= 3 /\ plan.current_weekly_mileage >= 4) =>
        \A k \in TaperEntries(weeks) :
            plan.weekly_schedule[k].total_miles < PeakWeekMiles(plan.weekly_schedule)

\* a long timeline whose peak was clamped below the current mileage, so that
\* the peak week is the first one
C2_Witness ==
    /\ Planned
    /\ weeks = 16
    /\ plan.current_weekly_mileage = 800
    /\ plan.fitness_level = "Beginner"
    /\ plan.weekly_schedule[13].total_miles = 320
    /\ PeakWeekMiles(plan.weekly_schedule) = 800

-----------------------------------------------------------------------------
(* C3, in the case the claim names (the tier clamp or the 70-mile cap made
   the peak lower than the current weekly mileage): each entry's total_miles
   is non-negative and every taper entry's total_miles is strictly below
   the plan's peak_weekly_mileage. *)
C3_TaperBelowPlanPeak ==
    (Planned /\ plan.peak_weekly_mileage < plan.current_weekly_mileage) =>
        /\ \A k \in 1..Len(plan.weekly_schedule) : plan.weekly_schedule[k].total_miles >= 0
        /\ \A k \in TaperEntries(weeks) :
               plan.weekly_schedule[k].total_miles < plan.peak_weekly_mileage

-----------------------------------------------------------------------------
(* C4: with the longest run and the average pace fixed, a direct call of
   _determine_fitness_level on a weekly mileage that is not lower returns a
   tier that is not lower, in the order Beginner < Beginner+ < Intermediate
   < Intermediate+ < Advanced. *)
Rank(l) ==
    CASE l = "Beginner" -> 1
      [] l = "Beginner+" -> 2
      [] l = "Intermediate" -> 3
      [] l = "Intermediate+" -> 4
      [] l = "Advanced" -> 5

FracLeq(p, q) == p[1] * q[2] <= q[1] * p[2]

C4_TierMonotone ==
    [][ ( /\ op = "classify"
          /\ op' = "classify"
          /\ level_args'.longest_run = level_args.longest_run
          /\ level_args'.avg_pace = level_args.avg_pace
          /\ FracLeq(level_args.weekly_mileage, level_args'.weekly_mileage) )
        => Rank(level) <= Rank(level') ]_vars

\* a slow runner with the mileage and the long run of the top tier, demoted
C4_Witness ==
    /\ op = "classify"
    /\ FracGe(level_args.weekly_mileage, 50, 1)
    /\ FracGe(level_args.longest_run, 20, 1)
    /\ FracGt(level_args.avg_pace, 10, 1)
    /\ level = "Intermediate"

-----------------------------------------------------------------------------
(* C5: analyze returns the same consistency_score label for a non-empty list
   of runs and for every permutation of it. *)
Orderings(n) == {f \in [1..n -> 1..n] : \A i, j \in 1..n : f[i] = f[j] => i = j}

Permuted(runs, f) == [i \in 1..Len(runs) |-> runs[f[i]]]

C5_ConsistencyPermutation ==
    (op = "analyze" /\ runs_data # <<>>) =>
        \A f \in Orderings(Len(runs_data)) :
            \A other \in AnalyzeStravaFitness(Permuted(runs_data, f)) :
                other.consistency_score = profile.consistency_score

\* two runs given latest first, far enough apart for the lowest label
C5_Witness ==
    /\ op = "analyze"
    /\ Len(runs_data) >= 2
    /\ ToOrdinal(runs_data[1].date) > ToOrdinal(runs_data[2].date)
    /\ profile.consistency_score = "Needs Improvement (Inconsistent)"

-----------------------------------------------------------------------------
(* C6: analyze on an empty list of runs fails with an exception raised to
   the caller and returns no profile, and so generate is never run on what
   that call returned. *)
C6_EmptyRunsRaise ==
    /\ (op = "analyze" /\ runs_data = <<>>) => "raised" \in DOMAIN profile
    /\ (op = "generate" /\ "error" \in DOMAIN fitness_data) => ~Planned

-----------------------------------------------------------------------------
(* C7: for every goal time that is supplied but is not three colon-separated
   numbers (the empty string included), generate fails with an exception
   and returns no plan. *)
WellFormedGoal(text) ==
    LET parts == Split(text)
    IN  Len(parts) = 3 /\ \A i \in 1..3 : IsNumber(parts[i])

C7_MalformedGoalRaises ==
    (op = "generate" /\ "text" \in DOMAIN goal_time /\ ~WellFormedGoal(goal_time.text))
        => Raised

-----------------------------------------------------------------------------
(* C8: for a non-empty list of runs with positive distances, the
   weekly_mileage of the returned profile is never larger than its
   total_distance, and its fitness_level is one of the five tiers. *)
C8_WeeklyWithinTotal ==
    (op = "analyze" /\ runs_data # <<>>) =>
        /\ profile.weekly_mileage <= profile.total_distance
        /\ profile.fitness_level \in FitnessLevels

\* runs in two different months: the weekly mileage is half the total
C8_Witness ==
    /\ op = "analyze"
    /\ Len(runs_data) = 2
    /\ WeeksOfData(runs_data) = 2
    /\ profile.total_distance = 260
    /\ profile.weekly_mileage = 130

-----------------------------------------------------------------------------
(* C9: for every positive weeks outside {4, 8, 12, 16} and every fitness
   level outside the five tiers (the goal time absent or well formed),
   generate returns a plan; the plan uses the 1.5 peak multiplier, the
   4-week phase shape (Maintain weeks 1-2, Taper weeks 3-4) and the Beginner
   weekly structure. *)
C9_LookupFallback ==
    ( /\ op = "generate"
      /\ weeks \notin {4, 8, 12, 16}
      /\ "fitness_level" \in DOMAIN fitness_data
      /\ fitness_data.fitness_level \notin FitnessLevels
      /\ ("text" \in DOMAIN goal_time => WellFormedGoal(goal_time.text)) )
    => /\ Planned
       /\ plan.peak_weekly_mileage
              \in RoundSet(Min(15 * plan.current_weekly_mileage, 7000), 10)
       /\ Len(plan.training_phases) = 2
       /\ plan.training_phases[1].phase = "Maintain"
       /\ plan.training_phases[1].weeks = "1-2"
       /\ plan.training_phases[2].phase = "Taper"
       /\ plan.training_phases[2].weeks = "3-4"
       /\ plan.weekly_structure = Structures.Beginner

\* a plan for 10 weeks and the level "Elite"
C9_Witness ==
    /\ Planned
    /\ weeks = 10
    /\ plan.fitness_level = "Elite"
    /\ plan.current_weekly_mileage = 200
    /\ plan.peak_weekly_mileage = 300

-----------------------------------------------------------------------------
(* C10: for weeks >= 12 the first weeks-4 entries are a linear ramp from
   base to peak: week 1 has the base mileage, build week k has
   base + (k-1) * (peak-base)/(weeks-4), the last build week (week weeks-4)
   has the peak mileage, and the four following entries are
   peak x 0.8, 0.6, 0.4, 0.3 in that order (all rounded to tenths). *)
C10_RampReachesPeak ==
    (Planned /\ weeks >= 12) =>
        LET base == plan.current_weekly_mileage
            peak == MaxSafeMileage(weeks, base, plan.fitness_level)
            build_weeks == weeks - 4
            miles(k) == plan.weekly_schedule[k].total_miles
        IN  /\ miles(1) = base
            /\ \A k \in 1..build_weeks :
                   miles(k) \in RoundSet(10 * base * build_weeks + (peak - 10 * base) * (k - 1),
                                         10 * build_weeks)
            /\ miles(build_weeks) \in RoundSet(peak, 10)
            /\ miles(build_weeks + 1) \in RoundSet(8 * peak, 100)
            /\ miles(build_weeks + 2) \in RoundSet(6 * peak, 100)
            /\ miles(build_weeks + 3) \in RoundSet(4 * peak, 100)
            /\ miles(build_weeks + 4) \in RoundSet(3 * peak, 100)

-----------------------------------------------------------------------------
(* C11: for weeks >= 12 the long-run progression has exactly weeks entries;
   its first weeks-4 entries start at max(longest run, 8 miles), never
   decrease, step up by 2 miles at most every other week and only from a
   value under 20 miles, and never exceed 22 miles; the last four entries
   are 18, 12, 8, 6 miles. *)
CurrentLongest == Get(Get(fitness_data, "longest_run", <<>>), "distance", 800)

C11_LongRunProgression ==
    (Planned /\ weeks >= 12) =>
        LET progression == plan.key_workouts.long_runs.progression
            build_weeks == weeks - 4
        IN  /\ Len(progression) = weeks
            /\ progression[1] = Max(CurrentLongest, 800)
            /\ \A k \in 1..(build_weeks - 1) :
                   \/ progression[k + 1] = progression[k]
                   \/ /\ progression[k + 1] = progression[k] + 200
                      /\ progression[k] < 2000
                      /\ k > 1 => progression[k] = progression[k - 1]
            /\ \A k \in 1..build_weeks : progression[k] <= 2200
            /\ SubSeq(progression, build_weeks + 1, weeks) = <<1800, 1200, 800, 600>>

-----------------------------------------------------------------------------
(* C12: in every schedule the two labels of a week agree on the taper: the
   key workout is "Easy pace runs only" exactly when the focus is
   "Taper & recovery", and both exactly in the last two weeks
   (week > weeks - 2); in every other week the key workout is element
   (week - 1) mod 3 of the three workouts of the runner's tier. *)
TierWorkouts(fitness_level) ==
    IF fitness_level = "Beginner"
    THEN <<"Tempo run", "Fartlek", "Hill repeats">>
    ELSE <<"Interval training", "Tempo run", "Long run with pickups">>

C12_TaperLabelsAgree ==
    Planned =>
        \A k \in 1..Len(plan.weekly_schedule) :
            LET entry == plan.weekly_schedule[k]
                easy == entry.key_workout = "Easy pace runs only"
                taper == entry.focus = "Taper & recovery"
            IN  /\ easy <=> taper
                /\ taper <=> entry.week > weeks - 2
                /\ ~easy => entry.key_workout =
                                TierWorkouts(plan.fitness_level)[((entry.week - 1) % 3) + 1]

C12_Witness ==
    /\ Planned
    /\ weeks = 13
    /\ plan.fitness_level = "Advanced"
    /\ plan.weekly_schedule[11].focus = "Race pace"
    /\ plan.weekly_schedule[11].key_workout = "Tempo run"
    /\ plan.weekly_schedule[12].focus = "Taper & recovery"
    /\ plan.weekly_schedule[12].key_workout = "Easy pace runs only"

====
